---- MODULE Spec2Model ----
(***************************************************************************)
(* A model of the HTTP engine of teddy_crawler: pagination over list pages *)
(* (engines/http_engine.py), the regex parsers (parsers/dt_dd.py) and the  *)
(* schema normaliser (core/schema.py).                                     *)
(*                                                                         *)
(* The module holds several specifications over one set of variables:      *)
(*   SpecList    crawl_list_pages                                          *)
(*   SpecIds     extract_ids                                               *)
(*   SpecNorm    normalize                                                 *)
(*   SpecDtDd    parse_dt_dd                                               *)
(*   SpecDetail  crawl_detail (parse_meta, parse_dt_dd, merge, id)         *)
(*   SpecLinks   LinkExtractor.extract_all_links (extractors/links.py)     *)
(*   SpecText    TextExtractor.extract_with_selectors, _extract_paragraphs *)
(*   SpecRun     run (engines/http_engine.py): list pages, details, output *)
(*   SpecSession fetch_command / batch_command (crawler.py): the browser   *)
(*               session, fetch_single_url, fetch_batch, the store writes  *)
(*   SpecScroll  TeddyCrawler._handle_scrolling (crawler.py), and          *)
(*               SpecScrollFair, the same with the loop making progress    *)
(* A specification leaves the variables of the others at their idle value. *)
(***************************************************************************)
EXTENDS Integers, Sequences, FiniteSets, TLC

VARIABLES
    \* crawl_list_pages
    pc,          \* "entry" | "loop" | "done"
    start_page,  \* config.get("start_page", 1)
    end_page,    \* config.get("end_page", 1), capped by max_pages
    max_pages,   \* the max_pages argument: None or Some(n)
    page,        \* the loop variable of `for page in range(...)`
    all_ids,     \* the accumulated identifier sequence
    seen,        \* the seen-set
    log,         \* history: one entry per executed loop body (the page, whether
                 \* it was fetched and parsed, its regex matches, all_ids
                 \* before and after, whether the body slept)
    returned,    \* the value returned, once pc = "done"
    \* extract_ids
    ipc,         \* "idle" | "input" | "once" | "twice"
    found,       \* re.findall(pattern, html)
    unique,      \* extract_ids' result
    again,       \* the same deduplication applied to `unique`
    \* normalize
    npc,         \* "idle" | "call" | "done"
    raw,         \* the raw record: label -> value
    mapping,     \* the site mapping: schema field -> source label
    record,      \* normalize's result
    \* parse_dt_dd
    dpc,         \* "idle" | "call" | "done"
    pairs,       \* re.findall of the dt/dd regex: <<label markup, value markup>>
    data,        \* parse_dt_dd's result: label -> value
    \* crawl_detail
    xpc,         \* "idle" | "call" | "done" | "raised"
    config,      \* meta_patterns (its keys) and id_field of the site config
    item_id,     \* the identifier passed in
    html,        \* the detail page: its dt/dd pairs and, per meta pattern
                 \* that matches, the group re.search captures
    detail,      \* crawl_detail's result
    \* TeddyCrawler._handle_scrolling
    spc,              \* "idle" | "entry" | "fixed" | "grow" | "done"
    scroll_count,     \* config.get('scroll_count'): None or Some(n)
    plan,             \* the heights the page reports for its first samples
    fixed_i,          \* the loop variable of `for i in range(scroll_count)`
    previous_height,  \* the local previous_height
    scroll_attempts,  \* the local scroll_attempts
    by_ops,           \* history: window.scrollBy evaluations done
    to_ops,           \* history: window.scrollTo evaluations done
    waits,            \* history: settle delays (wait_for_timeout) done
    nsamples,         \* history: document heights sampled
    tail2,            \* history: the last two heights sampled
    how,              \* history: "" | "fixed" | "stable" | "cap" | "error"
    \* LinkExtractor.extract_all_links
    lpc,              \* "idle" | "loop" | "done" | "failed"
    current_url,      \* page.url
    nlinks,           \* history: anchors of the page handled so far
    last,             \* history: the anchor handled last, None before
    links_result,     \* the local `result`, returned at the end
    \* TextExtractor.extract_with_selectors and _extract_paragraphs
    tpc,              \* "idle" | "call_selectors" | "call_paragraphs" |
                      \* "selected" | "paragraphs"
    selectors,        \* per selector key, what its query finds on the page
    p_elements,       \* what query_selector_all('p') finds on the page
    text_result,      \* extract_with_selectors' result: key -> texts
    paragraphs,       \* _extract_paragraphs' result
    \* http_engine.run
    rpc,              \* "idle" | "entry" | "list" | "details" | "save" |
                      \* "done" | "raised"
    site,             \* the required keys the site configuration holds
    max_items,        \* the max_items argument: None or Some(n)
    run_end_page,     \* config.get("end_page", 1)
    run_page,         \* crawl_list_pages' loop variable
    run_all_ids,      \* crawl_list_pages' all_ids
    run_seen,         \* crawl_list_pages' seen
    page_log,         \* history: one entry per list page requested
    run_ids,          \* run's ids: the list result, cut to max_items
    item_i,           \* the detail loop's position in ids (i)
    detail_log,       \* history: one entry per detail loop body
    results,          \* run's results
    output,           \* the records written to the output file, or None
    \* crawler.py: a browser session of fetch_command or batch_command
    bpc,              \* "idle" | "enter" | "body" | "save" | "summary" |
                      \* "exit" | "ended"
    command,          \* "fetch" | "batch"
    jobs,             \* per job, whether it has a 'url' key, and its
                      \* 'name' key or None
    screenshot,       \* whether a screenshot is configured
    extract,          \* the extraction kinds asked for ('extract')
    scroll,           \* whether scrolling is configured ('scroll')
    delay,            \* the settings' delay in milliseconds
    engine,           \* the automation engine (self.playwright) is running
    browser,          \* the browser is open
    context,          \* the browser context is open
    pages_open,       \* pages opened and not closed
    job_i,            \* fetch_batch's position in jobs (i)
    batch_results,    \* the results returned by fetch_single_url so far
    last_fail,        \* history: the step that failed in the last fetch
    sleeps,           \* history: per job fetched by fetch_batch, whether
                      \* fetch_batch slept after it
    saved_results,    \* the results written by the store, or None
    saved_summary,    \* whether the summary report was written
    write_failed,     \* history: a write through the store raised
    raising,          \* an exception is propagating out of the session
    exit_code         \* the process exit status, or None

listVars == <<pc, start_page, end_page, max_pages, page, all_ids, seen, log,
              returned>>
idsVars == <<ipc, found, unique, again>>
normVars == <<npc, raw, mapping, record>>
dtddVars == <<dpc, pairs, data>>
detailVars == <<xpc, config, item_id, html, detail>>
scrollVars == <<spc, scroll_count, plan, fixed_i, previous_height,
                scroll_attempts, by_ops, to_ops, waits, nsamples, tail2,
                how>>
linksVars == <<lpc, current_url, nlinks, last, links_result>>
textVars == <<tpc, selectors, p_elements, text_result, paragraphs>>
runVars == <<rpc, site, max_items, run_end_page, run_page, run_all_ids,
             run_seen, page_log, run_ids, item_i, detail_log, results,
             output>>
sessionVars == <<bpc, command, jobs, screenshot, extract, scroll, delay,
                 engine, browser, context, pages_open, job_i, batch_results,
                 last_fail, sleeps, saved_results, saved_summary,
                 write_failed, raising, exit_code>>
vars == <<listVars, idsVars, normVars, dtddVars, detailVars, scrollVars,
          linksVars, textVars, runVars, sessionVars>>

\* what an action of one specification leaves alone: the other variables
ListFrame == UNCHANGED <<idsVars, normVars, dtddVars, detailVars,
                         scrollVars, linksVars, textVars, runVars,
                         sessionVars>>
IdsFrame == UNCHANGED <<listVars, normVars, dtddVars, detailVars,
                        scrollVars, linksVars, textVars, runVars,
                        sessionVars>>
NormFrame == UNCHANGED <<listVars, idsVars, dtddVars, detailVars,
                         scrollVars, linksVars, textVars, runVars,
                         sessionVars>>
DtDdFrame == UNCHANGED <<listVars, idsVars, normVars, detailVars,
                         scrollVars, linksVars, textVars, runVars,
                         sessionVars>>
DetailFrame == UNCHANGED <<listVars, idsVars, normVars, dtddVars,
                           scrollVars, linksVars, textVars, runVars,
                           sessionVars>>
ScrollFrame == UNCHANGED <<listVars, idsVars, normVars, dtddVars,
                           detailVars, linksVars, textVars, runVars,
                           sessionVars>>
LinksFrame == UNCHANGED <<listVars, idsVars, normVars, dtddVars,
                          detailVars, scrollVars, textVars, runVars,
                          sessionVars>>
TextFrame == UNCHANGED <<listVars, idsVars, normVars, dtddVars, detailVars,
                         scrollVars, linksVars, runVars, sessionVars>>
RunFrame == UNCHANGED <<listVars, idsVars, normVars, dtddVars, detailVars,
                        scrollVars, linksVars, textVars, sessionVars>>
SessionFrame == UNCHANGED <<listVars, idsVars, normVars, dtddVars,
                            detailVars, scrollVars, linksVars, textVars,
                            runVars>>

----------------------------------------------------------------------------
(* Bounds of the model *)

\* the largest page number of a configuration
MaxPage == 3
\* the most regex matches on one list page
MaxMatches == 2
\* the most regex matches handed to extract_ids alone
MaxFind == 4
\* the most dt/dd pairs of a detail page handed to parse_dt_dd alone
MaxPairs == 2
\* the most tokens of a dd value
MaxValLen == 3
\* the most dt/dd pairs of a detail page handed to crawl_detail
MaxDetailPairs == 2
\* the largest configured scroll_count
MaxScrollCount == 2
\* the number of first samples whose height the page fixes in advance
MaxPlan == 3
\* the most anchors of a page handed to extract_all_links
MaxLinks == 2
\* the most elements one selector matches
MaxElements == 2
\* the largest end_page of a site handed to run
MaxRunPage == 2
\* the largest max_items handed to run
MaxItems == 1
\* crawler.py line 201: the delay between jobs when the settings give none
DefaultDelay == 2000

\* the most jobs of a batch
MaxJobs == 2

\* the identifiers a list page can show
Ids == {"1", "2", "3"}

----------------------------------------------------------------------------
(* Helpers *)

None == <<>>
Some(n) == <<n>>

Min(a, b) == IF a <= b THEN a ELSE b

Range(s) == {s[i] : i \in DOMAIN s}

NoDup(s) == \A i, j \in DOMAIN s : i # j => s[i] # s[j]

IsPrefix(s, t) == Len(s) <= Len(t) /\ SubSeq(t, 1, Len(s)) = s

SeqsUpTo(S, n) == UNION {[1..k -> S] : k \in 0..n}

\* the dictionaries with keys among K and values in V
PartialFns(K, V) == UNION {[D -> V] : D \in SUBSET K}

\* d[k] = v of a Python dict: k is added when new, overwritten otherwise
Put(d, k, v) == [x \in DOMAIN d \cup {k} |-> IF x = k THEN v ELSE d[x]]

\* the index of the first occurrence of x in s (0 when absent)
FirstIndex(s, x) ==
    IF x \in Range(s) THEN CHOOSE i \in DOMAIN s :
                               s[i] = x /\ \A j \in 1..(i-1) : s[j] # x
    ELSE 0

----------------------------------------------------------------------------
(* parsers/dt_dd.py: extract_ids *)

\* the loop `for i in ids: if i not in seen: seen.add(i); unique.append(i)`
RECURSIVE ExtractLoop(_, _, _, _)
ExtractLoop(ids, k, seenSet, uniq) ==
    IF k > Len(ids) THEN uniq
    ELSE IF ids[k] \notin seenSet
         THEN ExtractLoop(ids, k + 1, seenSet \cup {ids[k]}, Append(uniq, ids[k]))
         ELSE ExtractLoop(ids, k + 1, seenSet, uniq)

\* a deduplication that keeps the last occurrence instead of the first
RECURSIVE ExtractLoopKeepLast(_, _, _, _)
ExtractLoopKeepLast(ids, k, seenSet, uniq) ==
    IF k > Len(ids) THEN uniq
    ELSE IF \E j \in (k+1)..Len(ids) : ids[j] = ids[k]
         THEN ExtractLoopKeepLast(ids, k + 1, seenSet, uniq)
         ELSE ExtractLoopKeepLast(ids, k + 1, seenSet \cup {ids[k]},
                                  Append(uniq, ids[k]))

\* extract_ids keeping the last occurrence of a repeated identifier
extract_ids_keeplast(ids) == ExtractLoopKeepLast(ids, 1, {}, <<>>)

\* extract_ids(html, pattern), given ids = re.findall(pattern, html)
extract_ids(ids) == ExtractLoop(ids, 1, {}, <<>>)

----------------------------------------------------------------------------
(* engines/http_engine.py: crawl_list_pages *)

ListIdle ==
    /\ pc = "idle" /\ start_page = 0 /\ end_page = 0 /\ max_pages = None
    /\ page = 0 /\ all_ids = <<>> /\ seen = {} /\ log = <<>>
    /\ returned = <<>>

IdsIdle == ipc = "idle" /\ found = <<>> /\ unique = <<>> /\ again = <<>>

NormIdle == npc = "idle" /\ raw = <<>> /\ mapping = <<>> /\ record = <<>>

DtDdIdle == dpc = "idle" /\ pairs = <<>> /\ data = <<>>

DetailIdle ==
    /\ xpc = "idle" /\ config = <<>> /\ item_id = <<>> /\ html = <<>>
    /\ detail = <<>>

ScrollIdle ==
    /\ spc = "idle" /\ scroll_count = None /\ plan = <<>> /\ fixed_i = 0
    /\ previous_height = 0 /\ scroll_attempts = 0 /\ by_ops = 0 /\ to_ops = 0
    /\ waits = 0 /\ nsamples = 0 /\ tail2 = <<>> /\ how = ""

LinksIdle ==
    /\ lpc = "idle" /\ current_url = <<>> /\ nlinks = 0 /\ last = None
    /\ links_result = <<>>

TextIdle ==
    /\ tpc = "idle" /\ selectors = <<>> /\ p_elements = <<>>
    /\ text_result = <<>> /\ paragraphs = <<>>

RunIdle ==
    /\ rpc = "idle" /\ site = {} /\ max_items = None /\ run_end_page = 0
    /\ run_page = 0 /\ run_all_ids = <<>> /\ run_seen = {} /\ page_log = <<>>
    /\ run_ids = <<>> /\ item_i = 0 /\ detail_log = <<>> /\ results = <<>>
    /\ output = None

SessionIdle ==
    /\ bpc = "idle" /\ command = "" /\ jobs = <<>> /\ screenshot = FALSE
    /\ extract = {} /\ scroll = FALSE /\ delay = 0
    /\ last_fail = "" /\ sleeps = <<>>
    /\ engine = FALSE /\ browser = FALSE /\ context = FALSE
    /\ pages_open = 0 /\ job_i = 0 /\ batch_results = <<>>
    /\ saved_results = None /\ saved_summary = FALSE
    /\ write_failed = FALSE /\ raising = FALSE /\ exit_code = None

\* the state at the call: the configuration and the argument
ListInit ==
    /\ pc = "entry"
    /\ start_page \in 1..2
    /\ end_page \in 0..MaxPage
    /\ max_pages \in {None} \cup {Some(n) : n \in 0..MaxPage}
    /\ page = 0 /\ all_ids = <<>> /\ seen = {} /\ log = <<>>
    /\ returned = <<>>

\* `if max_pages:` is true of a given, non-zero max_pages
Truthy(mp) == mp # None /\ mp[1] # 0

\* a cap applied whenever max_pages is given, zero included
CapIfGiven(ep, sp, mp) == IF mp # None THEN Min(ep, sp + mp[1] - 1) ELSE ep

\* lines 32-33: end_page = min(end_page, start_page + max_pages - 1)
CappedEnd(ep, sp, mp) == IF Truthy(mp) THEN Min(ep, sp + mp[1] - 1) ELSE ep

\* lines 22-36: read the configuration, cap end_page, empty accumulators
ListStart ==
    /\ pc = "entry"
    /\ end_page' = CappedEnd(end_page, start_page, max_pages)
    /\ page' = start_page
    /\ all_ids' = <<>> /\ seen' = {}
    /\ pc' = "loop"
    /\ UNCHANGED <<start_page, max_pages, log, returned>>
    /\ ListFrame

\* line 45: new_ids = [i for i in ids if i not in seen]
NewIds(ids, seenSet) == SelectSeq(ids, LAMBDA i : i \notin seenSet)

\* a stall test that also fires on the first processed page
StallAnyPage(new_ids, p, sp) == new_ids = <<>>

\* a stall test that spares the first two processed pages
StallLate(new_ids, p, sp) == new_ids = <<>> /\ p > sp + 1

\* line 50: `if not new_ids and page > start_page`
Stalled(new_ids, p, sp) == new_ids = <<>> /\ p > sp

\* a delay after every page, the last one included
SleepsAlways(p, ep) == TRUE

\* lines 57-58: `if page < end_page: time.sleep(delay)`
Sleeps(p, ep) == p < ep

\* an accumulation that appends every extracted id, seen or not
AccumulateAll(acc, ids, new_ids) == acc \o ids

\* line 47: all_ids.extend(new_ids)
Accumulate(acc, ids, new_ids) == acc \o new_ids

\* lines 39-52, 57-58: one loop body in which fetch and parse succeed;
\* `ms` is re.findall's result on the fetched page
PageOk(ms) ==
    /\ pc = "loop" /\ page <= end_page
    /\ LET ids     == extract_ids(ms)
           new_ids == NewIds(ids, seen)
           acc     == Accumulate(all_ids, ids, new_ids)
           stop    == Stalled(new_ids, page, start_page)
       IN /\ seen' = seen \cup Range(new_ids)
          /\ all_ids' = acc
          /\ log' = Append(log, [page |-> page, ok |-> TRUE, ms |-> ms,
                                 before |-> all_ids, acc |-> acc,
                                 slept |-> ~stop /\ Sleeps(page, end_page)])
          /\ IF stop
             THEN pc' = "done" /\ returned' = acc /\ page' = page
             ELSE pc' = "loop" /\ returned' = returned /\ page' = page + 1
    /\ UNCHANGED <<start_page, end_page, max_pages>>
    /\ ListFrame

\* an error handler that gives up the pagination
PageErrorAborts ==
    /\ pc = "loop" /\ page <= end_page
    /\ log' = Append(log, [page |-> page, ok |-> FALSE, ms |-> <<>>,
                           before |-> all_ids, acc |-> all_ids,
                           slept |-> FALSE])
    /\ pc' = "done" /\ returned' = all_ids
    /\ UNCHANGED <<start_page, end_page, max_pages, page, all_ids, seen>>
    /\ ListFrame

\* lines 42-44, 54-58: fetch_html or extract_ids raises; the except clause
\* logs the error and the loop goes on
PageError ==
    /\ pc = "loop" /\ page <= end_page
    /\ log' = Append(log, [page |-> page, ok |-> FALSE, ms |-> <<>>,
                           before |-> all_ids, acc |-> all_ids,
                           slept |-> Sleeps(page, end_page)])
    /\ page' = page + 1
    /\ UNCHANGED <<pc, start_page, end_page, max_pages, all_ids, seen, returned>>
    /\ ListFrame

\* line 60: the range is exhausted, return all_ids
ListReturn ==
    /\ pc = "loop" /\ page > end_page
    /\ pc' = "done" /\ returned' = all_ids
    /\ UNCHANGED <<start_page, end_page, max_pages, page, all_ids, seen, log>>
    /\ ListFrame

ListNext ==
    \/ ListStart
    \/ \E ms \in SeqsUpTo(Ids, MaxMatches) : PageOk(ms)
    \/ PageError
    \/ ListReturn

InitList == ListInit /\ IdsIdle /\ NormIdle /\ DtDdIdle /\ DetailIdle
    /\ ScrollIdle /\ LinksIdle /\ TextIdle /\ RunIdle /\ SessionIdle

SpecList == InitList /\ [][ListNext]_vars

----------------------------------------------------------------------------
(* extract_ids applied to a sequence of regex matches, and to its own output *)

IdsInit ==
    /\ ipc = "input"
    /\ found \in SeqsUpTo(Ids, MaxFind)
    /\ unique = <<>> /\ again = <<>>

ExtractIds ==
    /\ ipc = "input"
    /\ unique' = extract_ids(found)
    /\ ipc' = "once"
    /\ UNCHANGED <<found, again>>
    /\ IdsFrame

ExtractIdsAgain ==
    /\ ipc = "once"
    /\ again' = extract_ids(unique)
    /\ ipc' = "twice"
    /\ UNCHANGED <<found, unique>>
    /\ IdsFrame

IdsNext == ExtractIds \/ ExtractIdsAgain

InitIds == IdsInit /\ ListIdle /\ NormIdle /\ DtDdIdle /\ DetailIdle
    /\ ScrollIdle /\ LinksIdle /\ TextIdle /\ RunIdle /\ SessionIdle

SpecIds == InitIds /\ [][IdsNext]_vars

----------------------------------------------------------------------------
(* core/schema.py: FIELDS, empty_record, normalize *)

\* lines 9-17
FIELDS ==
    {"original_id", "access", "access_label", "access_minutes", "address",
     "area", "bonus", "caractoristic", "city", "contract", "dept", "detail",
     "facility_name", "facility_type", "holiday", "license", "line", "name",
     "occupation", "position", "prefecture", "price", "price_rule",
     "required_skill", "staff_comment", "staff_comment_title", "station",
     "test_period", "title_original", "welfare_program", "working_hours",
     "working_style"}

\* lines 20-22: {f: "" for f in FIELDS}
empty_record == [f \in FIELDS |-> ""]

\* a copy that takes every mapping target, recognised or not
RecognisedAny(schema_key, rec) == TRUE

\* line 29: `schema_key in record`
Recognised(schema_key, rec) == schema_key \in DOMAIN rec

\* a copy that stores the source label instead of its value
CopiedLabel(r, source_key) == source_key

\* line 30: raw[source_key]
Copied(r, source_key) == r[source_key]

\* lines 28-30: the loop over mapping.items(); `todo` holds the schema keys
\* not yet visited (each is a distinct dict key, so the order is immaterial)
RECURSIVE CopyLoop(_, _, _, _)
CopyLoop(rec, r, mp, todo) ==
    IF todo = {} THEN rec
    ELSE LET schema_key == CHOOSE t \in todo : TRUE
             source_key == mp[schema_key]
         IN CopyLoop(IF Recognised(schema_key, rec) /\ source_key \in DOMAIN r
                     THEN Put(rec, schema_key, Copied(r, source_key))
                     ELSE rec,
                     r, mp, todo \ {schema_key})

\* line 32: set(mapping.values())
MappedSources(mp) == {mp[t] : t \in DOMAIN mp}

\* line 33: {k: v for k, v in raw.items() if k not in mapped_sources}
Extra(r, mp) == [k \in DOMAIN r \ MappedSources(mp) |-> r[k]]

\* line 34: `if extra:`
StoresExtra(extra) == DOMAIN extra # {}

\* lines 25-36
normalize(r, mp) ==
    LET rec   == CopyLoop(empty_record, r, mp, DOMAIN mp)
        extra == Extra(r, mp)
    IN IF StoresExtra(extra) THEN Put(rec, "_extra", extra) ELSE rec

\* the labels and values of the raw records, the targets and sources of
\* the mappings: two schema fields and a target that is no schema field;
\* the raw labels and a source label no raw record has
RawLabels == {"label_a", "label_b"}
RawValues == {"v1", "v2"}
MappingTargets == {"name", "address", "bogus"}
MappingSources == RawLabels \cup {"label_x"}

NormInit ==
    /\ npc = "call"
    /\ raw \in PartialFns(RawLabels, RawValues)
    /\ mapping \in PartialFns(MappingTargets, MappingSources)
    /\ record = <<>>

Normalize ==
    /\ npc = "call"
    /\ record' = normalize(raw, mapping)
    /\ npc' = "done"
    /\ UNCHANGED <<raw, mapping>>
    /\ NormFrame

NormNext == Normalize

InitNorm == NormInit /\ ListIdle /\ IdsIdle /\ DtDdIdle /\ DetailIdle
    /\ ScrollIdle /\ LinksIdle /\ TextIdle /\ RunIdle /\ SessionIdle

SpecNorm == InitNorm /\ [][NormNext]_vars

----------------------------------------------------------------------------
(* parsers/dt_dd.py: parse_dt_dd *)

(* Markup is a sequence of tokens.  A token is a piece of text (a          *)
(* character, or a whole word in a label), the newline "LF", or one tag:   *)
(*   "<br>"  a line-break tag the regex <br\s*/?> matches: <br> <br/> <br />*)
(*   "<BR>"  a line-break tag it does not match (the regex is compiled     *)
(*           without re.IGNORECASE and allows no attribute): <BR>,         *)
(*           <br clear="all">                                              *)
(*   "<i>"   any other tag                                                 *)
(* All three tags match the tag regex <[^>]+>.                             *)
BrMatched == {"<br>"}
LineBreakTags == {"<br>", "<BR>"}
Tags == {"<br>", "<BR>", "<i>"}
Whitespace == {"LF"}
Tokens == {"x", "LF"} \cup Tags

\* re.sub(r"<[^>]+>", "", s)
StripTags(s) == SelectSeq(s, LAMBDA t : t \notin Tags)

\* line 34: re.sub(r"<br\s*/?>", "\n", val)
BrToNewline(s) == [i \in DOMAIN s |-> IF s[i] \in BrMatched THEN "LF" ELSE s[i]]

\* line 36: re.sub(r"\n{2,}", "\n", val)
RECURSIVE CollapseNewlines(_)
CollapseNewlines(s) ==
    IF Len(s) <= 1 THEN s
    ELSE IF s[1] = "LF" /\ s[2] = "LF" THEN CollapseNewlines(Tail(s))
         ELSE <<s[1]>> \o CollapseNewlines(Tail(s))

RECURSIVE LStrip(_)
LStrip(s) == IF s # <<>> /\ s[1] \in Whitespace THEN LStrip(Tail(s)) ELSE s

RECURSIVE RStrip(_)
RStrip(s) ==
    IF s # <<>> /\ s[Len(s)] \in Whitespace
    THEN RStrip(SubSeq(s, 1, Len(s) - 1)) ELSE s

\* str.strip()
Strip(s) == RStrip(LStrip(s))

\* line 33; a label's text is one word at most here, "" when there is none
CleanKey(k) ==
    LET t == Strip(StripTags(k)) IN IF t = <<>> THEN "" ELSE t[1]

\* lines 34-36
CleanVal(v) == Strip(CollapseNewlines(StripTags(BrToNewline(v))))

\* line 37: `if key and key not in data`
Stores(key, d) == key # "" /\ key \notin DOMAIN d

\* lines 31-38: the loop over the pairs
RECURSIVE DtDdLoop(_, _, _)
DtDdLoop(ps, k, d) ==
    IF k > Len(ps) THEN d
    ELSE LET key == CleanKey(ps[k][1])
             val == CleanVal(ps[k][2])
         IN DtDdLoop(ps, k + 1, IF Stores(key, d) THEN Put(d, key, val) ELSE d)

\* lines 27-39, given ps = re.findall(<the dt/dd regex>, html, re.DOTALL)
parse_dt_dd(ps) == DtDdLoop(ps, 1, <<>>)

\* label markups: a bare label, the same label inside a tag and followed
\* by a newline, and a label with no text
KeyMarkups == {<<"k">>, <<"<i>", "k", "LF">>, <<"LF">>}
ValMarkups == SeqsUpTo(Tokens, MaxValLen)

DtDdInit ==
    /\ dpc = "call"
    /\ pairs \in SeqsUpTo(KeyMarkups \X ValMarkups, MaxPairs)
    /\ data = <<>>

ParseDtDd ==
    /\ dpc = "call"
    /\ data' = parse_dt_dd(pairs)
    /\ dpc' = "done"
    /\ UNCHANGED pairs
    /\ DtDdFrame

DtDdNext == ParseDtDd

InitDtDd == DtDdInit /\ ListIdle /\ IdsIdle /\ NormIdle /\ DetailIdle
    /\ ScrollIdle /\ LinksIdle /\ TextIdle /\ RunIdle /\ SessionIdle

SpecDtDd == InitDtDd /\ [][DtDdNext]_vars

----------------------------------------------------------------------------
(* parsers/dt_dd.py: parse_meta; engines/http_engine.py: crawl_detail *)

\* lines 45-48: the default title pattern and the configured ones
Patterns(meta_patterns) == {"title"} \cup meta_patterns

\* lines 49-53: a pattern that matches gives the stripped text of its group;
\* hits maps each pattern that matches to the group re.search captures
parse_meta(hits) == [key \in DOMAIN hits |-> Strip(StripTags(hits[key]))]

\* a merge in which the label/value pass wins a collision
MergeLabelWins(d, meta) ==
    [k \in DOMAIN d \cup DOMAIN meta |-> IF k \in DOMAIN d THEN d[k] ELSE meta[k]]

\* line 79: data.update(meta)
Merge(d, meta) ==
    [k \in DOMAIN d \cup DOMAIN meta |-> IF k \in DOMAIN meta THEN meta[k] ELSE d[k]]

\* an injection that keeps a value a pass already stored under the key
InjectIfAbsent(d, id_field, id) ==
    IF id_field \in DOMAIN d THEN d ELSE Put(d, id_field, id)

\* line 82: data[config.get("id_field", "original_id")] = item_id
InjectId(d, id_field, id) == Put(d, id_field, id)

\* the labels, values and captured groups of the detail pages
DetailKeyMarkups == {<<"k">>, <<"title">>, <<"original_id">>}
DetailValMarkups == {<<"x">>, <<"x", "<br>", "y">>}
MetaGroups == {<<"m">>, <<"<i>", "n", "LF">>}
ItemIds == {<<"1">>, <<"2">>}

DetailInit ==
    /\ xpc = "call"
    /\ config \in [meta_patterns : SUBSET {"k", "updated"},
                   id_field : {"original_id", "k"}]
    /\ item_id \in ItemIds
    /\ html \in [pairs : SeqsUpTo(DetailKeyMarkups \X DetailValMarkups,
                                  MaxDetailPairs),
                 hits : PartialFns({"title", "k", "updated"}, MetaGroups)]
    /\ DOMAIN html.hits \subseteq Patterns(config.meta_patterns)
    /\ detail = <<>>

\* lines 63-84, the fetch succeeding
CrawlDetail ==
    /\ xpc = "call"
    /\ LET meta == parse_meta(html.hits)
           d    == parse_dt_dd(html.pairs)
       IN detail' = InjectId(Merge(d, meta), config.id_field, item_id)
    /\ xpc' = "done"
    /\ UNCHANGED <<config, item_id, html>>
    /\ DetailFrame

\* line 69: fetch_html raises, and crawl_detail with it
CrawlDetailRaises ==
    /\ xpc = "call"
    /\ xpc' = "raised"
    /\ UNCHANGED <<config, item_id, html, detail>>
    /\ DetailFrame

DetailNext == CrawlDetail \/ CrawlDetailRaises

InitDetail == DetailInit /\ ListIdle /\ IdsIdle /\ NormIdle /\ DtDdIdle
    /\ ScrollIdle /\ LinksIdle /\ TextIdle /\ RunIdle /\ SessionIdle

SpecDetail == InitDetail /\ [][DetailNext]_vars

----------------------------------------------------------------------------
(* crawler.py: TeddyCrawler._handle_scrolling *)

\* line 239: previous_height = 0
InitialPreviousHeight == 0
\* line 241: max_attempts = 50
max_attempts == 50

\* the document heights a page reports
Heights == {0, 100, 200}

ScrollInit ==
    /\ spc = "entry"
    /\ scroll_count \in {None} \cup {Some(n) : n \in 0..MaxScrollCount}
    /\ plan \in [1..MaxPlan -> Heights]
    /\ fixed_i = 0 /\ previous_height = 0 /\ scroll_attempts = 0
    /\ by_ops = 0 /\ to_ops = 0 /\ waits = 0 /\ nsamples = 0
    /\ tail2 = <<>> /\ how = ""

\* lines 229-231, 239-240: `if scroll_count:` chooses the strategy
ScrollStart ==
    /\ spc = "entry"
    /\ IF Truthy(scroll_count)
       THEN spc' = "fixed" /\ fixed_i' = 0
            /\ UNCHANGED <<previous_height, scroll_attempts>>
       ELSE spc' = "grow" /\ previous_height' = InitialPreviousHeight
            /\ scroll_attempts' = 0 /\ UNCHANGED fixed_i
    /\ UNCHANGED <<scroll_count, plan, by_ops, to_ops, waits, nsamples, tail2, how>>
    /\ ScrollFrame

\* lines 233-236: one iteration of the fixed-count loop
FixedStep ==
    /\ spc = "fixed" /\ fixed_i < scroll_count[1]
    /\ by_ops' = by_ops + 1
    /\ waits' = waits + 1
    /\ fixed_i' = fixed_i + 1
    /\ UNCHANGED <<spc, scroll_count, plan, previous_height, scroll_attempts,
                   to_ops, nsamples, tail2, how>>
    /\ ScrollFrame

\* line 233: range(scroll_count) is exhausted
FixedDone ==
    /\ spc = "fixed" /\ fixed_i >= scroll_count[1]
    /\ spc' = "done" /\ how' = "fixed"
    /\ UNCHANGED <<scroll_count, plan, fixed_i, previous_height, scroll_attempts,
                   by_ops, to_ops, waits, nsamples, tail2>>
    /\ ScrollFrame

\* lines 234, 259-260: page.evaluate raises in the fixed-count loop; the
\* except clause logs it and the function returns
FixedRaises ==
    /\ spc = "fixed" /\ fixed_i < scroll_count[1]
    /\ spc' = "done" /\ how' = "error"
    /\ UNCHANGED <<scroll_count, plan, fixed_i, previous_height, scroll_attempts,
                   by_ops, to_ops, waits, nsamples, tail2>>
    /\ ScrollFrame

\* a loop test that lets one more attempt through
WithinCapInclusive(attempts) == attempts <= max_attempts

\* line 243: `while scroll_attempts < max_attempts`
WithinCap(attempts) == attempts < max_attempts

\* the height the page reports for its next sample: the planned one, any
\* height once the plan is used up
NextHeights == IF nsamples < Len(plan) THEN {plan[nsamples + 1]} ELSE Heights

\* a loop that never updates previous_height
KeepPrevious(prev, cur) == prev

\* line 251: previous_height = current_height
NextPrevious(prev, cur) == cur

\* lines 244-252: one iteration of the grow-until-stable loop, the page
\* reporting height h
GrowStep(h) ==
    /\ spc = "grow" /\ WithinCap(scroll_attempts)
    /\ to_ops' = to_ops + 1
    /\ waits' = waits + 1
    /\ nsamples' = nsamples + 1
    /\ tail2' = IF tail2 = <<>> THEN <<h>> ELSE <<tail2[Len(tail2)], h>>
    /\ IF h = previous_height
       THEN spc' = "done" /\ how' = "stable"
            /\ UNCHANGED <<previous_height, scroll_attempts>>
       ELSE /\ previous_height' = NextPrevious(previous_height, h)
            /\ scroll_attempts' = scroll_attempts + 1
            /\ UNCHANGED <<spc, how>>
    /\ UNCHANGED <<scroll_count, plan, fixed_i, by_ops>>
    /\ ScrollFrame

\* line 243: the loop test fails after max_attempts unequal samples
GrowCap ==
    /\ spc = "grow" /\ ~WithinCap(scroll_attempts)
    /\ spc' = "done" /\ how' = "cap"
    /\ UNCHANGED <<scroll_count, plan, fixed_i, previous_height, scroll_attempts,
                   by_ops, to_ops, waits, nsamples, tail2>>
    /\ ScrollFrame

\* lines 247, 259-260: the scroll and the delay are done and sampling the
\* height raises; the except clause logs it and the function returns
GrowRaises ==
    /\ spc = "grow" /\ WithinCap(scroll_attempts)
    /\ to_ops' = to_ops + 1
    /\ waits' = waits + 1
    /\ spc' = "done" /\ how' = "error"
    /\ UNCHANGED <<scroll_count, plan, fixed_i, previous_height, scroll_attempts,
                   by_ops, nsamples, tail2>>
    /\ ScrollFrame

ScrollNext ==
    \/ ScrollStart
    \/ FixedStep
    \/ FixedDone
    \/ FixedRaises
    \/ \E h \in NextHeights : GrowStep(h)
    \/ GrowCap
    \/ GrowRaises

InitScroll == ScrollInit /\ ListIdle /\ IdsIdle /\ NormIdle /\ DtDdIdle
    /\ DetailIdle /\ LinksIdle /\ TextIdle /\ RunIdle /\ SessionIdle

SpecScroll == InitScroll /\ [][ScrollNext]_vars

\* the coroutine is awaited to its end: a step that can be taken is taken
SpecScrollFair == SpecScroll /\ WF_vars(ScrollNext)

----------------------------------------------------------------------------
(* extractors/links.py: LinkExtractor.extract_all_links *)

\* A URL or an href is the sequence of its pieces: a scheme with its colon,
\* "//", the pieces of a host, "/", a path segment, "#", a fragment name.
\* String operations (prefix, search, join) act on the pieces.
Schemes == {"https:", "http:", "javascript:", "mailto:", "tel:"}
HostPieces == {"example.com", ".evil.org", "other.org"}

\* urlparse(url).scheme, as a sequence of at most one piece
SchemeOf(url) == IF url # <<>> /\ url[1] \in Schemes THEN <<url[1]>> ELSE <<>>

\* what follows the scheme
AfterScheme(url) == SubSeq(url, Len(SchemeOf(url)) + 1, Len(url))

\* the longest prefix of s made of host pieces
RECURSIVE HostPrefix(_)
HostPrefix(s) ==
    IF s = <<>> \/ s[1] \notin HostPieces THEN <<>>
    ELSE <<s[1]>> \o HostPrefix(Tail(s))

\* urlparse(url).netloc: what follows "//" up to the path or the fragment
Netloc(url) ==
    LET rest == AfterScheme(url)
    IN  IF rest # <<>> /\ rest[1] = "//" THEN HostPrefix(Tail(rest)) ELSE <<>>

\* scheme, "//" and netloc of an absolute URL
Origin(url) == SchemeOf(url) \o <<"//">> \o Netloc(url)

\* the URL without its fragment
RECURSIVE StripFragment(_)
StripFragment(url) ==
    IF url = <<>> \/ url[1] = "#" THEN <<>>
    ELSE <<url[1]>> \o StripFragment(Tail(url))

\* the URL up to and including the last "/" of its path
RECURSIVE UpToLastSlash(_)
UpToLastSlash(url) ==
    IF url = <<>> THEN <<>>
    ELSE IF url[Len(url)] = "/" THEN url
    ELSE UpToLastSlash(SubSeq(url, 1, Len(url) - 1))

\* the base that a relative path is resolved against
Dir(base) ==
    LET b == StripFragment(base)
    IN  IF Len(b) = Len(Origin(b)) THEN Origin(b) \o <<"/">>
        ELSE UpToLastSlash(b)

\* urllib.parse.urljoin(base, href), for hrefs without query and without
\* "." or ".." segments
urljoin(base, href) ==
    IF href = <<>> THEN base
    ELSE IF href[1] \in Schemes THEN href
    ELSE IF href[1] = "//" THEN SchemeOf(base) \o href
    ELSE IF href[1] = "/" THEN Origin(base) \o href
    ELSE IF href[1] = "#" THEN StripFragment(base) \o href
    ELSE Dir(base) \o href

\* lines 16-21: the exclude patterns, searched anywhere in the href
ExcludedPieces == {"javascript:", "mailto:", "tel:"}

\* lines 176-185 (_should_exclude): an empty or blank href, an href that
\* holds an excluded piece, an href that ends with "#"
should_exclude(href) ==
    \/ href = <<>>
    \/ \A i \in 1..Len(href) : href[i] = " "
    \/ \E i \in 1..Len(href) : href[i] \in ExcludedPieces
    \/ href[Len(href)] = "#"

\* an origin test that compares the hosts
SameHost(url, base_domain) ==
    Netloc(url) = <<>> \/ Origin(url) = base_domain

\* lines 187-193 (_is_internal_link): no netloc, or the URL text starts with
\* the base domain
is_internal_link(url, base_domain) ==
    Netloc(url) = <<>> \/ IsPrefix(base_domain, url)

\* lines 195-209 (_is_navigation_link): element.closest finds a landmark;
\* an exception of the evaluation means "no"
is_navigation_link(anchor) == anchor.fail # "nav" /\ anchor.nav

\* lines 55-60: the entry built for a retained anchor (text and title are
\* carried along unchanged and left out); "image" is set at lines 75-83 on
\* the same object, so every list that holds the entry sees it
LinkData(url, anchor) ==
    [url |-> urljoin(url, anchor.href), original_href |-> anchor.href,
     image |-> anchor.img /\ anchor.fail # "img"]

\* the hrefs an anchor of the page may carry
Hrefs ==
    { <<"/", "a">>, <<"b">>, <<"#", "frag">>, <<"b", "#">>,
      <<"https:", "//", "other.org", "/", "a">>,
      <<"https:", "//", "example.com", ".evil.org", "/", "a">>,
      <<"https:", "//", "example.com", "/", "a">>,
      <<"//", "other.org", "/", "a">>,
      <<"mailto:", "a">>, <<"#">>, <<>> }

\* an anchor of the page: its href, whether it lies inside a landmark,
\* whether it holds an image, and which read of it raises, if any ("read":
\* an attribute or the text, "nav": the landmark evaluation, "img": the
\* image lookup)
Anchors ==
    [href : Hrefs, nav : BOOLEAN, img : BOOLEAN,
     fail : {"none", "read", "nav", "img"}]

PageUrls ==
    { <<"https:", "//", "example.com", "/", "dir", "/", "page">>,
      <<"https:", "//", "example.com">> }

\* lines 26-33: the empty result
EmptyLinks ==
    [internal_links |-> <<>>, external_links |-> <<>>,
     navigation_links |-> <<>>, content_links |-> <<>>,
     images_with_links |-> <<>>, total_count |-> 0]

LinksInit ==
    /\ lpc = "loop"
    /\ current_url \in PageUrls
    /\ nlinks = 0 /\ last = None
    /\ links_result = EmptyLinks

\* a classification in which an exception of the landmark evaluation skips
\* the rest of the anchor after it was filed as internal or external
ClassifyNavRaises(res, url, anchor) ==
    LET d == LinkData(url, anchor)
        internal == is_internal_link(d.url, Origin(url))
        navigation == is_navigation_link(anchor)
        placed == anchor.fail # "nav"
    IN  [res EXCEPT
           !.internal_links = IF internal THEN Append(@, d) ELSE @,
           !.external_links = IF internal THEN @ ELSE Append(@, d),
           !.navigation_links = IF placed /\ navigation THEN Append(@, d) ELSE @,
           !.content_links = IF placed /\ ~navigation THEN Append(@, d) ELSE @,
           !.images_with_links = IF placed /\ d.image THEN Append(@, d) ELSE @]

\* lines 53-83: the lists after one retained anchor
Classify(res, url, anchor) ==
    LET d == LinkData(url, anchor)
        internal == is_internal_link(d.url, Origin(url))
        navigation == is_navigation_link(anchor)
    IN  [res EXCEPT
           !.internal_links = IF internal THEN Append(@, d) ELSE @,
           !.external_links = IF internal THEN @ ELSE Append(@, d),
           !.navigation_links = IF navigation THEN Append(@, d) ELSE @,
           !.content_links = IF navigation THEN @ ELSE Append(@, d),
           !.images_with_links = IF d.image THEN Append(@, d) ELSE @]

\* lines 43-87: one iteration of the loop over the anchors
LinkStep(anchor) ==
    /\ lpc = "loop" /\ nlinks < MaxLinks
    /\ nlinks' = nlinks + 1
    /\ last' = Some(anchor)
    /\ links_result' =
         IF anchor.fail = "read" \/ should_exclude(anchor.href)
         THEN links_result
         ELSE Classify(links_result, current_url, anchor)
    /\ UNCHANGED <<lpc, current_url>>
    /\ LinksFrame

\* lines 89-91: the loop is over; total_count is set and result returned
LinksReturn ==
    /\ lpc = "loop"
    /\ lpc' = "done"
    /\ links_result' =
         [links_result EXCEPT !.total_count =
            Len(links_result.internal_links) + Len(links_result.external_links)]
    /\ UNCHANGED <<current_url, nlinks, last>>
    /\ LinksFrame

\* lines 41, 93-95: query_selector_all raises; {} is returned
LinksRaises ==
    /\ lpc = "loop" /\ nlinks = 0
    /\ lpc' = "failed"
    /\ links_result' = <<>>
    /\ UNCHANGED <<current_url, nlinks, last>>
    /\ LinksFrame

LinksNext ==
    \/ \E anchor \in Anchors : LinkStep(anchor)
    \/ LinksReturn
    \/ LinksRaises

InitLinks == LinksInit /\ ListIdle /\ IdsIdle /\ NormIdle /\ DtDdIdle
    /\ DetailIdle /\ ScrollIdle /\ TextIdle /\ RunIdle /\ SessionIdle

SpecLinks == InitLinks /\ [][LinksNext]_vars

----------------------------------------------------------------------------
(* extractors/text.py: extract_with_selectors and _extract_paragraphs *)

\* what element.inner_text() gives for an element: a text longer than 20
\* characters, a shorter text, only white space, or an exception
ElementTexts == {"long", "short", "blank", "raise"}

SelectorKeys == {"k1", "k2"}

\* what a selector finds: its query raises, or it matches these elements
Found ==
    [query_ok : BOOLEAN, elements : SeqsUpTo(ElementTexts, MaxElements)]

\* no element matched
NothingFound == [query_ok |-> TRUE, elements |-> <<>>]

\* the state at the call of one of the two functions
TextInit ==
    /\ \/ /\ tpc = "call_selectors"
          /\ selectors \in PartialFns(SelectorKeys, Found)
          /\ p_elements = NothingFound
       \/ /\ tpc = "call_paragraphs"
          /\ selectors = <<>>
          /\ p_elements \in Found
    /\ text_result = <<>> /\ paragraphs = <<>>

\* a read of some element raises
Raises(elements) == \E i \in 1..Len(elements) : elements[i] = "raise"

\* lines 47-50: the texts kept, `if text and text.strip()`
RECURSIVE NonBlank(_)
NonBlank(elements) ==
    IF elements = <<>> THEN <<>>
    ELSE IF elements[1] \in {"long", "short"}
         THEN <<elements[1]>> \o NonBlank(Tail(elements))
         ELSE NonBlank(Tail(elements))

\* lines 103-105: the paragraphs kept, `len(text.strip()) > 20`
RECURSIVE LongOnes(_)
LongOnes(elements) ==
    IF elements = <<>> THEN <<>>
    ELSE IF elements[1] = "long"
         THEN <<elements[1]>> \o LongOnes(Tail(elements))
         ELSE LongOnes(Tail(elements))

\* lines 43-57: a key is stored when its query and every read of its
\* elements succeed and some text is kept; an exception anywhere in the
\* try block leaves the key out
KeyStored(hit) ==
    hit.query_ok /\ ~Raises(hit.elements) /\ NonBlank(hit.elements) # <<>>

\* lines 39-59 (a single text is stored bare, several as a list)
extract_with_selectors(sel) ==
    [k \in {k \in DOMAIN sel : KeyStored(sel[k])} |-> NonBlank(sel[k].elements)]

\* lines 96-110: the long paragraphs, [] when anything raises
extract_paragraphs(hit) ==
    IF hit.query_ok /\ ~Raises(hit.elements)
    THEN LongOnes(hit.elements)
    ELSE <<>>

ExtractWithSelectors ==
    /\ tpc = "call_selectors"
    /\ tpc' = "selected"
    /\ text_result' = extract_with_selectors(selectors)
    /\ UNCHANGED <<selectors, p_elements, paragraphs>>
    /\ TextFrame

ExtractParagraphs ==
    /\ tpc = "call_paragraphs"
    /\ tpc' = "paragraphs"
    /\ paragraphs' = extract_paragraphs(p_elements)
    /\ UNCHANGED <<selectors, p_elements, text_result>>
    /\ TextFrame

TextNext ==
    \/ ExtractWithSelectors
    \/ ExtractParagraphs

InitText == TextInit /\ ListIdle /\ IdsIdle /\ NormIdle /\ DtDdIdle
    /\ DetailIdle /\ ScrollIdle /\ LinksIdle /\ RunIdle /\ SessionIdle

SpecText == InitText /\ [][TextNext]_vars

----------------------------------------------------------------------------
(* engines/http_engine.py: run *)

\* the configuration keys read without a default (lines 24, 25, 66)
RequiredKeys == {"list_url", "id_pattern", "detail_url"}

\* line 28: config.get("start_page", 1)
DefaultStartPage == 1

\* what re.findall may return on a list page of the site
RunMatches == {<<>>, <<"1">>, <<"2">>, <<"1", "2">>, <<"2", "2", "1">>}

RunInit ==
    /\ rpc = "entry"
    /\ site \in SUBSET RequiredKeys
    /\ max_items \in {None} \cup {Some(n) : n \in 0..MaxItems}
    /\ run_end_page \in 1..MaxRunPage
    /\ run_page = 0 /\ run_all_ids = <<>> /\ run_seen = {} /\ page_log = <<>>
    /\ run_ids = <<>> /\ item_i = 0 /\ detail_log = <<>> /\ results = <<>>
    /\ output = None

\* lines 97-108 and 24-36: run loads the configuration and calls
\* crawl_list_pages, which reads list_url and id_pattern
RunStart ==
    /\ rpc = "entry"
    /\ {"list_url", "id_pattern"} \subseteq site
    /\ rpc' = "list"
    /\ run_page' = DefaultStartPage
    /\ run_all_ids' = <<>> /\ run_seen' = {}
    /\ UNCHANGED <<site, max_items, run_end_page, page_log, run_ids, item_i,
                   detail_log, results, output>>
    /\ RunFrame

\* lines 24-25: config["list_url"] or config["id_pattern"] raises KeyError,
\* which nothing in run catches
RunConfigError ==
    /\ rpc = "entry"
    /\ ~({"list_url", "id_pattern"} \subseteq site)
    /\ rpc' = "raised"
    /\ UNCHANGED <<site, max_items, run_end_page, run_page, run_all_ids,
                   run_seen, page_log, run_ids, item_i, detail_log, results,
                   output>>
    /\ RunFrame

\* lines 111-113: ids[:max_items] when max_items is given and not zero
CutToMaxItems(all, mi) ==
    IF Truthy(mi) THEN SubSeq(all, 1, Min(mi[1], Len(all))) ELSE all

\* line 60 and lines 109-118: crawl_list_pages returns; the detail phase
\* begins
ToDetails(all) ==
    /\ rpc' = "details"
    /\ run_ids' = CutToMaxItems(all, max_items)
    /\ item_i' = 1

\* lines 39-52, 57-58: a list page is fetched and parsed
RunPageOk(ms) ==
    /\ rpc = "list" /\ run_page <= run_end_page
    /\ LET found_ids == extract_ids(ms)
           new_ids == NewIds(found_ids, run_seen)
           acc == Accumulate(run_all_ids, found_ids, new_ids)
       IN /\ run_seen' = run_seen \cup Range(new_ids)
          /\ run_all_ids' = acc
          /\ page_log' = Append(page_log, [page |-> run_page, ok |-> TRUE,
                                           before |-> run_all_ids, acc |-> acc])
          /\ IF Stalled(new_ids, run_page, DefaultStartPage)
             THEN ToDetails(acc) /\ UNCHANGED run_page
             ELSE run_page' = run_page + 1 /\ UNCHANGED <<rpc, run_ids, item_i>>
    /\ UNCHANGED <<site, max_items, run_end_page, detail_log, results, output>>
    /\ RunFrame

\* lines 42-44, 54-58: fetch_html raises on a list page; the error is logged
\* and the loop goes on
RunPageError ==
    /\ rpc = "list" /\ run_page <= run_end_page
    /\ page_log' = Append(page_log, [page |-> run_page, ok |-> FALSE,
                                     before |-> run_all_ids,
                                     acc |-> run_all_ids])
    /\ run_page' = run_page + 1
    /\ UNCHANGED <<rpc, site, max_items, run_end_page, run_all_ids, run_seen,
                   run_ids, item_i, detail_log, results, output>>
    /\ RunFrame

\* line 60: the page range is exhausted
RunListReturn ==
    /\ rpc = "list" /\ run_page > run_end_page
    /\ ToDetails(run_all_ids)
    /\ UNCHANGED <<site, max_items, run_end_page, run_page, run_all_ids,
                   run_seen, page_log, detail_log, results, output>>
    /\ RunFrame

\* a detail loop that tries a failed item once more
RetryItem(i, ok) == IF ok THEN i + 1 ELSE i

\* line 120: the loop goes on to the next item, whatever became of this one
NextItem(i, ok) == i + 1

\* lines 120-132: one body of the detail loop. The item's detail URL is
\* requested when detail_url is configured (line 66 raises KeyError
\* otherwise, before line 69); the record is appended when nothing raised
DetailBody(fetch_ok) ==
    /\ rpc = "details" /\ item_i <= Len(run_ids)
    /\ LET requested == "detail_url" \in site
           ok == requested /\ fetch_ok
       IN /\ detail_log' = Append(detail_log,
                [id |-> run_ids[item_i], requested |-> requested, ok |-> ok,
                 before |-> results])
          /\ results' = IF ok THEN Append(results, run_ids[item_i]) ELSE results
          /\ item_i' = NextItem(item_i, ok)
    /\ UNCHANGED <<rpc, site, max_items, run_end_page, run_page, run_all_ids,
                   run_seen, page_log, run_ids, output>>
    /\ RunFrame

\* lines 134-146: the records are written to the output file and returned
RunSave ==
    /\ rpc = "details" /\ item_i > Len(run_ids)
    /\ rpc' = "done"
    /\ output' = Some(results)
    /\ UNCHANGED <<site, max_items, run_end_page, run_page, run_all_ids,
                   run_seen, page_log, run_ids, item_i, detail_log, results>>
    /\ RunFrame

\* lines 137, 141-143: creating or writing the output file raises, which
\* nothing in run catches
RunSaveFails ==
    /\ rpc = "details" /\ item_i > Len(run_ids)
    /\ rpc' = "raised"
    /\ UNCHANGED <<site, max_items, run_end_page, run_page, run_all_ids,
                   run_seen, page_log, run_ids, item_i, detail_log, results,
                   output>>
    /\ RunFrame

RunNext ==
    \/ RunStart
    \/ RunConfigError
    \/ \E ms \in RunMatches : RunPageOk(ms)
    \/ RunPageError
    \/ RunListReturn
    \/ \E fetch_ok \in BOOLEAN : DetailBody(fetch_ok)
    \/ RunSave
    \/ RunSaveFails

InitRun == RunInit /\ ListIdle /\ IdsIdle /\ NormIdle /\ DtDdIdle
    /\ DetailIdle /\ ScrollIdle /\ LinksIdle /\ TextIdle /\ SessionIdle

SpecRun == InitRun /\ [][RunNext]_vars

----------------------------------------------------------------------------
(* crawler.py: the browser session of fetch_command and batch_command *)

\* the extraction kinds fetch_single_url knows (lines 143, 150, 157)
KnownKinds == {"text", "links", "images"}

\* line 140: the 'extract' lists of the configurations; "video" is a kind
\* fetch_single_url has no branch for
ExtractRequests == {KnownKinds, {"text"}, {"links", "video"}}

\* the jobs of a configuration file: a job without 'url', and jobs with
\* 'url', named or not
JobShapes == {[has_url |-> TRUE, name |-> None],
              [has_url |-> TRUE, name |-> Some("n")],
              [has_url |-> FALSE, name |-> Some("n")]}

\* lines 313-336, 354-367: the command, its jobs (fetch has the one URL of
\* the command line and asks for the three kinds; batch returns early
\* without jobs) and the settings the fetches read
SessionInit ==
    /\ bpc = "enter"
    /\ command \in {"fetch", "batch"}
    /\ jobs \in IF command = "fetch"
                THEN {<<[has_url |-> TRUE, name |-> None]>>}
                ELSE UNION {[1..n -> JobShapes] : n \in 1..MaxJobs}
    /\ screenshot \in BOOLEAN
    /\ extract \in IF command = "fetch" THEN {KnownKinds} ELSE ExtractRequests
    /\ scroll \in BOOLEAN
    /\ delay \in {0, DefaultDelay}
    /\ engine = FALSE /\ browser = FALSE /\ context = FALSE
    /\ pages_open = 0 /\ job_i = 1 /\ batch_results = <<>>
    /\ last_fail = "" /\ sleeps = <<>>
    /\ saved_results = None /\ saved_summary = FALSE
    /\ write_failed = FALSE /\ raising = FALSE /\ exit_code = None

\* the steps of start_browser that can raise
StartFailures == {"none", "engine", "launch", "context"}

\* lines 50-53, 59-82 (__aenter__, start_browser): the engine is started,
\* the browser launched, the context created. The except clause re-raises
\* and releases nothing; __aexit__ does not run when __aenter__ raises, and
\* the exception ends the process with status 1 (lines 431-436)
StartBrowser(fail) ==
    /\ bpc = "enter"
    /\ engine' = (fail # "engine")
    /\ browser' = (fail \notin {"engine", "launch"})
    /\ context' = (fail = "none")
    /\ IF fail = "none"
       THEN bpc' = "body" /\ UNCHANGED <<raising, exit_code>>
       ELSE bpc' = "ended" /\ raising' = TRUE /\ exit_code' = Some(1)
    /\ UNCHANGED <<command, jobs, screenshot, extract, scroll, delay,
                   pages_open, job_i,
                   batch_results, saved_results, saved_summary, write_failed>>
    /\ UNCHANGED <<last_fail, sleeps>>
    /\ SessionFrame

\* the steps of fetch_single_url and of the helpers it calls that can raise
FetchFailures == {"none", "new_page", "goto", "scroll", "extract",
                  "screenshot", "save_screenshot", "close"}

\* lines 128-129, 143-162, 165-168: scrolling, the extractors and the
\* screenshot run only when configured
FetchFailuresOf(shot, scr, kinds) ==
    {f \in FetchFailures :
        /\ f \in {"screenshot", "save_screenshot"} => shot
        /\ f = "scroll" => scr
        /\ f = "extract" => kinds \cap KnownKinds # {}}

\* a fetch_single_url that lets the error of a screenshot write through
ScreenshotErrorRaises(fail) == fail = "save_screenshot"

\* lines 107, 175-182: every exception inside fetch_single_url is caught
FetchRaises(fail) == FALSE

\* a fetch that fails when a scroll fails
SucceedsUnlessAnyFailure(fail) == fail = "none"

\* lines 226-260 (_handle_scrolling: the exception of a scroll is printed,
\* lines 259-260) and the extractors (extractors/text.py, links.py,
\* images.py: the exception of a query is printed and the bundle so far
\* returned): these failures never reach the except clause of
\* fetch_single_url, which goes on to line 173
FetchSucceeds(fail) == fail \in {"none", "scroll", "extract"}

\* lines 132-162, 173: the result of a fetch that went through, with one
\* data entry per known kind asked for; lines 175-182: the result of a
\* fetch that raised, without data
FetchResult(fail, kinds) ==
    IF FetchSucceeds(fail)
    THEN [success |-> TRUE, error |-> FALSE,
          data |-> Some(kinds \cap KnownKinds)]
    ELSE [success |-> FALSE, error |-> TRUE, data |-> None]

\* the decimal text of a job's position
IndexText(i) == <<"1", "2", "3", "4">>[i]

\* line 197: job.get('name', f'job_{i}'); fetch_command (line 338) stamps
\* no name
JobName(cmd, job, i) ==
    IF cmd = "fetch" THEN None
    ELSE IF job.name # None THEN job.name ELSE <<"job_", IndexText(i)>>

\* lines 201-204: fetch_batch sleeps after a job when the delay is
\* positive and the job is not the last
SleepsAfter(cmd, d, i, n) == cmd = "batch" /\ d > 0 /\ i < n

\* lines 101-182 (fetch_single_url): a page is opened (108), loaded
\* (110-125), scrolled (128-129) and extracted (139-162), the screenshot
\* taken and written through the store (164-168), the page closed (170);
\* an exception reaching line 175 is turned into a result with success
\* False, the page, if opened, staying open
FetchSingleUrl(fail) ==
    /\ pages_open' = IF FetchSucceeds(fail) \/ fail = "new_page"
                     THEN pages_open ELSE pages_open + 1
    /\ write_failed' = (write_failed \/ fail = "save_screenshot")
    /\ last_fail' = fail
    /\ IF FetchRaises(fail)
       THEN bpc' = "exit" /\ raising' = TRUE
            /\ UNCHANGED <<batch_results, job_i, sleeps>>
       ELSE /\ batch_results' = Append(batch_results,
                [job |-> job_i,
                 job_name |-> JobName(command, jobs[job_i], job_i),
                 result |-> FetchResult(fail, extract)])
            /\ sleeps' = IF command = "batch"
                         THEN Append(sleeps, SleepsAfter(command, delay,
                                                         job_i, Len(jobs)))
                         ELSE sleeps
            /\ job_i' = job_i + 1
            /\ UNCHANGED <<bpc, raising>>

\* lines 191-205 (fetch_batch) and 338 (fetch_command): the next job is
\* fetched, its result stamped and appended, the delay slept
FetchJob(fail) ==
    /\ bpc = "body" /\ job_i <= Len(jobs) /\ jobs[job_i].has_url
    /\ fail \in FetchFailuresOf(screenshot, scroll, extract)
    /\ FetchSingleUrl(fail)
    /\ UNCHANGED <<command, jobs, screenshot, extract, scroll, delay,
                   engine, browser, context, saved_results, saved_summary,
                   exit_code>>
    /\ SessionFrame

\* line 196: job['url'] raises KeyError for a job without url; the
\* exception leaves fetch_batch and the `async with` block
JobKeyError ==
    /\ bpc = "body" /\ job_i <= Len(jobs) /\ ~jobs[job_i].has_url
    /\ bpc' = "exit" /\ raising' = TRUE
    /\ UNCHANGED <<command, jobs, screenshot, extract, scroll, delay,
                   engine, browser, context,
                   pages_open, job_i, batch_results, saved_results,
                   saved_summary, write_failed, exit_code>>
    /\ UNCHANGED <<last_fail, sleeps>>
    /\ SessionFrame

\* line 207: fetch_batch returns its results (fetch_command: line 338)
BatchReturn ==
    /\ bpc = "body" /\ job_i > Len(jobs)
    /\ bpc' = "save"
    /\ UNCHANGED <<command, jobs, screenshot, extract, scroll, delay,
                   engine, browser, context,
                   pages_open, job_i, batch_results, saved_results,
                   saved_summary, write_failed, raising, exit_code>>
    /\ UNCHANGED <<last_fail, sleeps>>
    /\ SessionFrame

\* lines 340-344, 372-376: save_single_result or save_batch_results; the
\* store re-raises an error of the write (json_store.py lines 49-51, 80-82)
SaveResults(ok) ==
    /\ bpc = "save"
    /\ IF ok
       THEN /\ saved_results' = Some(batch_results)
            /\ bpc' = IF command = "batch" THEN "summary" ELSE "exit"
            /\ UNCHANGED <<write_failed, raising>>
       ELSE /\ bpc' = "exit" /\ raising' = TRUE /\ write_failed' = TRUE
            /\ UNCHANGED saved_results
    /\ UNCHANGED <<command, jobs, screenshot, extract, scroll, delay,
                   engine, browser, context,
                   pages_open, job_i, batch_results, saved_summary, exit_code>>
    /\ UNCHANGED <<last_fail, sleeps>>
    /\ SessionFrame

\* line 379: create_summary_report; the store re-raises an error of the
\* write (json_store.py lines 215-217)
SaveSummary(ok) ==
    /\ bpc = "summary"
    /\ bpc' = "exit"
    /\ saved_summary' = ok
    /\ raising' = ~ok
    /\ write_failed' = (write_failed \/ ~ok)
    /\ UNCHANGED <<command, jobs, screenshot, extract, scroll, delay,
                   engine, browser, context,
                   pages_open, job_i, batch_results, saved_results, exit_code>>
    /\ UNCHANGED <<last_fail, sleeps>>
    /\ SessionFrame

\* the steps of close_browser that can raise
CloseFailures == {"none", "context", "browser", "engine"}

\* lines 55-57, 84-99 (__aexit__, close_browser): inside one try block the
\* context is closed (with its pages), then the browser, then the engine
\* is stopped; an exception of one step skips the steps after it and is
\* only printed. The exception propagating out of the block, if any, ends
\* the process with status 1 (lines 431-436)
CloseBrowser(fail) ==
    /\ bpc = "exit"
    /\ bpc' = "ended"
    /\ context' = (fail = "context")
    /\ pages_open' = IF fail = "context" THEN pages_open ELSE 0
    /\ browser' = (fail \in {"context", "browser"})
    /\ engine' = (fail # "none")
    /\ exit_code' = IF raising THEN Some(1) ELSE Some(0)
    /\ UNCHANGED <<command, jobs, screenshot, extract, scroll, delay,
                   job_i, batch_results,
                   saved_results, saved_summary, write_failed, raising>>
    /\ UNCHANGED <<last_fail, sleeps>>
    /\ SessionFrame

SessionNext ==
    \/ \E fail \in StartFailures : StartBrowser(fail)
    \/ \E fail \in FetchFailures : FetchJob(fail)
    \/ JobKeyError
    \/ BatchReturn
    \/ \E ok \in BOOLEAN : SaveResults(ok)
    \/ \E ok \in BOOLEAN : SaveSummary(ok)
    \/ \E fail \in CloseFailures : CloseBrowser(fail)

InitSession == SessionInit /\ ListIdle /\ IdsIdle /\ NormIdle /\ DtDdIdle
    /\ DetailIdle /\ ScrollIdle /\ LinksIdle /\ TextIdle /\ RunIdle

SpecSession == InitSession /\ [][SessionNext]_vars

----------------------------------------------------------------------------
(* Claims about crawl_list_pages (SpecList) *)

\* the identifiers of the pages fetched so far, in page order
RECURSIVE Stream(_)
Stream(n) == IF n = 0 THEN <<>> ELSE Stream(n - 1) \o log[n].ms

\* entry i is a successfully fetched page after the first that shows no
\* identifier not already seen
StallsAt(i) ==
    /\ log[i].ok
    /\ log[i].page > start_page
    /\ Range(log[i].ms) \subseteq Range(log[i].before)

\* C1: a page k > start_page that is fetched successfully and yields no
\* identifier not already seen is the last page fetched: the crawl is over,
\* no later page was fetched, and the value returned is the sequence
\* accumulated up to page k.
C1_StallHalts ==
    \A i \in DOMAIN log :
        StallsAt(i) =>
            /\ i = Len(log)
            /\ pc = "done"
            /\ \A j \in DOMAIN log : log[j].page <= log[i].page
            /\ returned = log[i].acc
            /\ returned = all_ids

\* a stalled page with pages of the range left unfetched
C1_Witness ==
    /\ pc = "done"
    /\ \E i \in DOMAIN log :
        StallsAt(i) /\ log[i].page < end_page /\ Len(log[i].acc) >= 2

\* C2: after every iteration all_ids has no duplicates, lists the
\* identifiers in the order they were first seen across the pages fetched,
\* has exactly the members of the seen-set, and extends the sequence held
\* before the iteration.
C2_IdentifierSequence ==
    /\ NoDup(all_ids)
    /\ Range(all_ids) = seen
    /\ Range(all_ids) = Range(Stream(Len(log)))
    /\ \A i, j \in DOMAIN all_ids :
         i < j => FirstIndex(Stream(Len(log)), all_ids[i])
                    < FirstIndex(Stream(Len(log)), all_ids[j])
    /\ \A i \in DOMAIN log :
         /\ IsPrefix(log[i].before, log[i].acc)
         /\ i > 1 => log[i].before = log[i-1].acc
         /\ i = Len(log) => log[i].acc = all_ids

\* three pages fetched, with repeats inside and across pages
C2_Witness ==
    /\ Len(log) >= 3
    /\ Len(all_ids) >= 3
    /\ Len(Stream(Len(log))) > Len(all_ids)
    /\ \E i \in DOMAIN log : Len(log[i].ms) = 2 /\ log[i].ms[1] = log[i].ms[2]

\* C3: an error on page p is caught: all_ids is as before the page, and the
\* crawl goes on with page p+1 when p < end_page (the page is fetched next,
\* or already was) instead of returning.
C3_ErrorContinues ==
    \A i \in DOMAIN log :
        ~log[i].ok =>
            /\ log[i].acc = log[i].before
            /\ log[i].page < end_page =>
                 \/ i < Len(log) /\ log[i+1].page = log[i].page + 1
                 \/ /\ i = Len(log) /\ pc = "loop"
                    /\ page = log[i].page + 1 /\ page <= end_page
            /\ log[i].page = end_page /\ i = Len(log) =>
                 pc = "loop" \/ returned = log[i].acc

\* a failed page followed by a page that was fetched and added identifiers
C3_Witness ==
    \E i \in DOMAIN log :
        /\ ~log[i].ok /\ i < Len(log) /\ Len(log[i].before) >= 1
        /\ log[i+1].ok /\ log[i+1].page = log[i].page + 1
        /\ log[i+1].acc # log[i+1].before

----------------------------------------------------------------------------
(* Claims about normalize (SpecNorm) *)

\* the raw label's value was copied into a canonical field mapped to it
CopiedToField(k) ==
    \E f \in DOMAIN mapping \cap FIELDS :
        /\ mapping[f] = k
        /\ f \in DOMAIN record /\ record[f] = raw[k]

\* the raw label and its value are in the overflow under the same label
InExtra(k) ==
    /\ "_extra" \in DOMAIN record
    /\ k \in DOMAIN record["_extra"]
    /\ record["_extra"][k] = raw[k]

\* C4: every raw key is preserved by normalize: its value is in a canonical
\* field it was mapped to, or in "_extra" under its own label.
C4_NoRawKeyDropped ==
    npc = "done" => \A k \in DOMAIN raw : CopiedToField(k) \/ InExtra(k)

C6_ExtraIffUnconsumed ==
    npc = "done" =>
        ("_extra" \in DOMAIN record
            <=> \E k \in DOMAIN raw : ~CopiedToField(k))

\* C7 as stated: every mapping pair whose source is in the raw record
\* round-trips: result[target] = raw[source].
C7_RoundTripEveryPair ==
    npc = "done" =>
        \A t \in DOMAIN mapping :
            mapping[t] \in DOMAIN raw =>
                /\ t \in DOMAIN record
                /\ record[t] = raw[mapping[t]]

\* C7, amended: every mapping pair whose target is a field of FIELDS and
\* whose source is in the raw record round-trips.
C7_RoundTrip ==
    npc = "done" =>
        \A t \in DOMAIN mapping \cap FIELDS :
            mapping[t] \in DOMAIN raw => record[t] = raw[mapping[t]]

\* two fields mapped to two present sources with different values
C7_Witness ==
    /\ npc = "done"
    /\ {"name", "address"} \subseteq DOMAIN mapping
    /\ mapping["name"] \in DOMAIN raw /\ mapping["address"] \in DOMAIN raw
    /\ record["name"] = "v1" /\ record["address"] = "v2"

----------------------------------------------------------------------------
(* Claims about parse_dt_dd (SpecDtDd) *)

\* the pairs whose label reads `key`
PairsOf(key) == {i \in DOMAIN pairs : CleanKey(pairs[i][1]) = key}

FirstPairOf(key) == CHOOSE i \in PairsOf(key) : \A j \in PairsOf(key) : i <= j

\* the number of text characters among the first n tokens of s
RECURSIVE TextBefore(_, _)
TextBefore(s, n) ==
    IF n = 0 THEN 0
    ELSE TextBefore(s, n - 1) + (IF s[n] \notin Tags \cup Whitespace THEN 1 ELSE 0)

\* token p of markup v is a tag of the set brs with text before and after it
BreakInside(v, p, brs) ==
    /\ v[p] \in brs
    /\ TextBefore(v, p) > 0
    /\ TextBefore(v, Len(v)) > TextBefore(v, p)

\* the value `out` has a newline between the text before and the text
\* after token p of v
NewlineAt(out, v, p) ==
    \E q \in DOMAIN out :
        out[q] = "LF" /\ TextBefore(out, q) = TextBefore(v, p)

\* the label/value pass on the tags of brs: the first pair of a label gives
\* its value, and a line break inside that value is a newline in it
FirstWinsAndBreaks(brs) ==
    dpc = "done" =>
        \A i \in DOMAIN pairs :
            LET key == CleanKey(pairs[i][1])
                v   == pairs[FirstPairOf(key)][2]
            IN key # "" =>
                 /\ key \in DOMAIN data
                 /\ data[key] = CleanVal(v)
                 /\ TextBefore(data[key], Len(data[key])) = TextBefore(v, Len(v))
                 /\ \A p \in DOMAIN v :
                      BreakInside(v, p, brs) => NewlineAt(data[key], v, p)

\* C9: of the pairs that share a non-empty label the result keeps the value
\* of the first, and a line-break tag inside a value is a literal newline
\* in the value kept, the other markup being stripped.
C9_FirstLabelWinsBrNewline == FirstWinsAndBreaks(LineBreakTags)

\* the same for the line-break tags written <br>, <br/> or <br />
C9_FirstLabelWinsLowercaseBr == FirstWinsAndBreaks(BrMatched)

\* two pairs with one label and different values, a <br> inside the first
C9_Witness ==
    /\ dpc = "done"
    /\ Len(pairs) = 2
    /\ pairs[1][1] = <<"k">> /\ pairs[2][1] = <<"<i>", "k", "LF">>
    /\ pairs[1][2] = <<"x", "<br>", "x">>
    /\ pairs[2][2] = <<"x">>
    /\ data["k"] = <<"x", "LF", "x">>

----------------------------------------------------------------------------
(* Claims about crawl_detail (SpecDetail) *)

\* the results of the two passes over the page
MetaPass == parse_meta(html.hits)
LabelPass == parse_dt_dd(html.pairs)

\* the record holds the meta value of every key of the set K the meta pass
\* found, and the label/value pass's value of every other key of K
MetaMergedLast(K) ==
    /\ \A k \in K \cap DOMAIN MetaPass :
         k \in DOMAIN detail /\ detail[k] = MetaPass[k]
    /\ \A k \in (K \cap DOMAIN LabelPass) \ DOMAIN MetaPass :
         k \in DOMAIN detail /\ detail[k] = LabelPass[k]

\* C10 as stated: for every key of both passes the raw record holds the
\* meta value, and a key of one pass alone keeps that pass's value.
C10_MetaWinsEveryKey ==
    xpc = "done" => MetaMergedLast(DOMAIN MetaPass \cup DOMAIN LabelPass)

\* C10, amended: the same for every key other than the configured
\* identifier field, which holds the item identifier.
C10_MetaWins ==
    xpc = "done" =>
        MetaMergedLast((DOMAIN MetaPass \cup DOMAIN LabelPass)
                           \ {config.id_field})

\* a key of both passes with different values, a key of each pass alone,
\* none of them the identifier field
C10_Witness ==
    /\ xpc = "done"
    /\ config.id_field = "original_id"
    /\ "k" \in DOMAIN MetaPass \cap DOMAIN LabelPass
    /\ MetaPass["k"] # LabelPass["k"]
    /\ "title" \in DOMAIN LabelPass \ DOMAIN MetaPass
    /\ "updated" \in DOMAIN MetaPass \ DOMAIN LabelPass
    /\ detail["original_id"] = item_id

----------------------------------------------------------------------------
(* Claims about extract_ids (SpecIds) *)

\* C8: extract_ids yields each distinct match exactly once, in the order of
\* first occurrence, and deduplicating its output again changes nothing.
C8_ExtractIdsIdempotent ==
    ipc \in {"once", "twice"} =>
        /\ NoDup(unique)
        /\ Range(unique) = Range(found)
        /\ \A i, j \in DOMAIN unique :
             i < j => FirstIndex(found, unique[i]) < FirstIndex(found, unique[j])
        /\ ipc = "twice" => again = unique

\* matches with a repeated identifier, deduplicated twice
C8_Witness ==
    /\ ipc = "twice"
    /\ Len(unique) >= 2
    /\ Len(unique) < Len(found)
    /\ found[1] = found[Len(found)]

----------------------------------------------------------------------------
(* Claims about _handle_scrolling (SpecScroll, SpecScrollFair) *)

\* what holds of the grow-until-stable loop in every state
GrowBounded ==
    /\ to_ops <= max_attempts
    /\ scroll_attempts <= max_attempts
    /\ spc = "grow" => to_ops = scroll_attempts
    /\ spc = "grow" /\ Len(tail2) = 2 => tail2[1] # tail2[2]
    /\ how = "cap" => scroll_attempts = max_attempts /\ to_ops = max_attempts

\* C11: the grow-until-stable strategy always terminates and scrolls to the
\* bottom at most 50 times, whatever heights the page reports: it never goes
\* on past two equal consecutive samples nor past 50 attempts.
C11_GrowTerminates == [](GrowBounded) /\ <>(spc = "done")

\* heights that never settle: the loop ended by the cap after 50 scrolls
C11_Witness ==
    spc = "done" /\ how = "cap" /\ to_ops = 50 /\ nsamples = 50

\* the grow-until-stable strategy on a page that reports 100, 200, 200 for
\* its first three samples
Plan100_200_200 ==
    /\ ~Truthy(scroll_count)
    /\ Len(plan) >= 3 /\ plan[1] = 100 /\ plan[2] = 200 /\ plan[3] = 200

\* the loop never goes on past a sample that equals the one before it
StopsAtFirstRepeat ==
    spc = "grow" /\ Len(tail2) = 2 => tail2[1] # tail2[2]

\* C12 as stated: on the heights 100, 200, 200 the strategy halts after the
\* second sample, at attempt index 2, and in general it halts (when it is
\* not the cap that ends it) at the first sample that equals the sample
\* taken immediately before it.
C12_HaltsAfterSecondSample ==
    /\ StopsAtFirstRepeat
    /\ how = "stable" => Len(tail2) = 2 /\ tail2[1] = tail2[2]
    /\ spc = "done" /\ how # "error" /\ Plan100_200_200
         => how = "stable" /\ scroll_attempts = 2 /\ nsamples = 2

\* C12, amended: on the heights 100, 200, 200 the strategy halts at the third
\* sample with scroll_attempts = 2, and in general it halts at the first
\* sample that equals the one before it, the first sample being compared
\* with an initial height of 0.
C12_HaltsAtFirstRepeat ==
    /\ StopsAtFirstRepeat
    /\ how = "stable" =>
         \/ Len(tail2) = 2 /\ tail2[1] = tail2[2]
         \/ nsamples = 1 /\ tail2 = <<InitialPreviousHeight>>
    /\ spc = "grow" /\ nsamples = 1 => tail2 # <<InitialPreviousHeight>>
    /\ spc = "done" /\ how # "error" /\ Plan100_200_200
         => /\ how = "stable" /\ scroll_attempts = 2
            /\ nsamples = 3 /\ to_ops = 3

\* the run on 100, 200, 200, ended by the repeated height
C12_Witness ==
    /\ Plan100_200_200
    /\ spc = "done" /\ how = "stable"
    /\ tail2 = <<200, 200>> /\ nsamples = 3

----------------------------------------------------------------------------
(* Claims about extract_all_links (SpecLinks) *)

\* the anchor handled last was retained: read without error, not excluded
LastRetained ==
    /\ last # None /\ lpc \in {"loop", "done"}
    /\ last[1].fail # "read" /\ ~should_exclude(last[1].href)

\* the entry of the anchor handled last
LastData == LinkData(current_url, last[1])

\* a relative href that stays on the page's origin: no scheme, no host
SameOriginRelative(href) ==
    href # <<>> /\ href[1] \notin Schemes /\ href[1] # "//"

\* an absolute href whose host is not the page's host
DifferentHostAbsolute(href) ==
    /\ href # <<>> /\ href[1] \in {"https:", "http:"}
    /\ Netloc(href) # Netloc(current_url)

\* C13: of a retained anchor, a same-origin relative href is classified
\* internal, an absolute href with a host other than the page's is
\* classified external, and an anchor inside a navigation landmark is
\* classified navigation whatever its internal/external classification.
C13_LinkClassification ==
    LastRetained =>
      /\ SameOriginRelative(last[1].href) =>
           LastData \in Range(links_result.internal_links)
      /\ DifferentHostAbsolute(last[1].href) =>
           /\ LastData \in Range(links_result.external_links)
           /\ LastData \notin Range(links_result.internal_links)
      /\ last[1].nav /\ last[1].fail # "nav" =>
           LastData \in Range(links_result.navigation_links)

----------------------------------------------------------------------------
(* Claims about the text extractor (SpecText) *)

\* C14: when one selector or element fails to resolve, only that unit is
\* skipped: every element that resolves to a text under a selector whose
\* query succeeded is in the result under its key, every paragraph that
\* resolves to a long text is among the paragraphs returned, and the
\* extractor returns instead of raising.
C14_FailureIsolation ==
    /\ tpc = "selected" =>
         \A k \in DOMAIN selectors :
            selectors[k].query_ok /\ NonBlank(selectors[k].elements) # <<>> =>
               /\ k \in DOMAIN text_result
               /\ text_result[k] = NonBlank(selectors[k].elements)
    /\ tpc = "paragraphs" /\ p_elements.query_ok =>
         paragraphs = LongOnes(p_elements.elements)

----------------------------------------------------------------------------
(* The first page of crawl_list_pages (SpecList) *)

\* the first loop body handled page start_page and added no identifier: the
\* page showed none, or its fetch failed
FirstPageEmpty ==
    /\ Len(log) >= 1
    /\ log[1].page = start_page
    /\ log[1].acc = <<>>

\* C20: the stall test never fires on the first page processed: when page
\* start_page yields no identifier, or fails, and start_page + 1 is within
\* the page range, the crawl goes on to fetch page start_page + 1.
C20_FirstPageNeverStalls ==
    FirstPageEmpty /\ start_page + 1 <= end_page =>
        /\ Len(log) = 1 => pc = "loop" /\ page = start_page + 1
        /\ Len(log) >= 2 => log[2].page = start_page + 1

\* a first page fetched without error and without identifiers, and the
\* crawl of the next page after it
C20_Witness ==
    /\ FirstPageEmpty /\ log[1].ok /\ log[1].ms = <<>>
    /\ Len(log) >= 2 /\ log[2].page = start_page + 1 /\ log[2].ok

----------------------------------------------------------------------------
(* Claims about run (SpecRun) *)

\* the list pages requested, in the order of the requests
PagesFetched == [i \in DOMAIN page_log |-> page_log[i].page]

\* the items whose detail page was requested, in the order of the requests
DetailsFetched ==
    LET req == SelectSeq(detail_log, LAMBDA e : e.requested)
    IN  [i \in DOMAIN req |-> req[i].id]

\* C16: when a required key of the site configuration (list_url, id_pattern
\* or detail_url) is missing, the run aborts with an error before any list
\* page or detail page is fetched.
C16_MissingKeyAborts ==
    site # RequiredKeys /\ rpc # "entry" =>
        /\ rpc = "raised"
        /\ PagesFetched = <<>>
        /\ DetailsFetched = <<>>

\* C18: nothing is retried: within a run every list page number and every
\* item's detail URL is requested at most once, also after a failure, and a
\* failed page or item adds nothing to what the run accumulates.
C18_NoRetries ==
    /\ NoDup(PagesFetched)
    /\ NoDup(DetailsFetched)
    /\ \A i \in DOMAIN page_log :
         ~page_log[i].ok => page_log[i].acc = page_log[i].before
    /\ Len(detail_log) <= Len(run_ids)
    /\ \A i \in DOMAIN detail_log :
         /\ i <= Len(run_ids) => detail_log[i].id = run_ids[i]
         /\ ~detail_log[i].ok => detail_log[i].id \notin Range(results)

\* a run in which a list page and an item failed and others succeeded
C18_Witness ==
    /\ rpc = "done"
    /\ \E i \in DOMAIN page_log : ~page_log[i].ok
    /\ \E i \in DOMAIN detail_log :
         detail_log[i].requested /\ ~detail_log[i].ok
    /\ results # <<>>

----------------------------------------------------------------------------
(* Claims about the browser session (SpecSession) *)

\* C15: on every exit path of a browser session, error paths included,
\* every page, context, browser and engine process that was acquired has
\* been released when the session is over.
C15_AllReleased ==
    bpc = "ended" =>
        /\ pages_open = 0
        /\ ~context
        /\ ~browser
        /\ ~engine

\* C17: a unit of work that fails (a list page, a detail item, a job of a
\* batch) discards nothing: the results of the units handled before it are
\* kept, and what was accumulated is emitted at the end of the run, unless
\* the write of the output itself fails.
C17_PartialResultsEmitted ==
    /\ bpc \in {"body", "save", "summary", "exit", "ended"} =>
         Len(batch_results) = job_i - 1
    /\ bpc = "ended" /\ batch_results # <<>> /\ ~write_failed =>
         saved_results = Some(batch_results)
    /\ \A i \in DOMAIN page_log :
         ~page_log[i].ok => page_log[i].acc = page_log[i].before
    /\ \A i \in DOMAIN detail_log :
         IsPrefix(detail_log[i].before, results)
    /\ rpc = "done" => output = Some(results)

\* C19: a failure to write an artifact through the store (a result, a
\* summary report, a screenshot) is propagated as an error and ends the
\* process with a non-zero status; it never ends up in a result that is
\* returned normally.
C19_WriteFailurePropagates ==
    /\ write_failed => bpc \in {"exit", "ended"} /\ raising
    /\ bpc = "ended" /\ write_failed => exit_code = Some(1)

----------------------------------------------------------------------------
(* The page range and the delays of crawl_list_pages (SpecList) *)

\* C21: when max_pages is given, zero included, only page numbers from
\* start_page to min(end_page, start_page + max_pages - 1) are fetched, so
\* at most max_pages pages are.
C21_MaxPagesCaps ==
    max_pages # None /\ pc # "entry" =>
        /\ \A i \in DOMAIN log :
             /\ log[i].page >= start_page
             /\ log[i].page <= Min(end_page, start_page + max_pages[1] - 1)
        /\ Len(log) <= max_pages[1]

\* C22: exactly one politeness delay lies between any two consecutive page
\* fetches, also after a failed page, and none follows the last page
\* fetched, whether the crawl ends at end_page or by the stall test.
C22_DelayBetweenPages ==
    \A i \in DOMAIN log :
        /\ i < Len(log) => log[i].slept
        /\ i = Len(log) => (log[i].slept <=> pc = "loop" /\ page <= end_page)
        /\ i = Len(log) /\ pc = "done" => ~log[i].slept

\* a failed page followed by a delay, then a stalled page before end_page
\* followed by none
C22_Witness ==
    /\ pc = "done" /\ Len(log) = 2
    /\ ~log[1].ok /\ log[1].slept
    /\ StallsAt(2) /\ log[2].page < end_page /\ ~log[2].slept

----------------------------------------------------------------------------
(* The fixed-count strategy of _handle_scrolling (SpecScroll) *)

\* C23: with a configured scroll count N, for every N >= 0, exactly N
\* scrolls by one viewport are done, each followed by one settle delay, and
\* no scroll to the bottom is done.
C23_FixedCountScrolls ==
    scroll_count # None =>
        /\ to_ops = 0
        /\ nsamples = 0
        /\ by_ops <= scroll_count[1]
        /\ waits = by_ops
        /\ spc = "done" /\ how # "error" =>
             by_ops = scroll_count[1] /\ waits = scroll_count[1]

----------------------------------------------------------------------------
(* The link bundle (SpecLinks) *)

\* the number of anchors filed by origin, and by placement
ByOrigin(res) == Len(res.internal_links) + Len(res.external_links)
ByPlacement(res) == Len(res.navigation_links) + Len(res.content_links)

\* the entries of the bundle
Retained(res) == Range(res.internal_links) \cup Range(res.external_links)

\* what the bundle satisfies while it is built and when it is returned
PartitionedBundle ==
    lpc \in {"loop", "done"} =>
        /\ ByOrigin(links_result) = ByPlacement(links_result)
        /\ ByOrigin(links_result) <= nlinks
        /\ Range(links_result.internal_links)
             \cap Range(links_result.external_links) = {}
        /\ Range(links_result.navigation_links) \cup
             Range(links_result.content_links) = Retained(links_result)
        /\ Range(links_result.images_with_links) \subseteq Retained(links_result)
        /\ Len(links_result.images_with_links) <= ByOrigin(links_result)
        /\ lpc = "done" =>
             /\ links_result.total_count = ByOrigin(links_result)
             /\ links_result.total_count = ByPlacement(links_result)

\* what handling one anchor does to the bundle: nothing, or one entry more
\* on each of the two axes
OneEntryPerAxis ==
    lpc = "loop" /\ lpc' = "loop" =>
        \E d \in {0, 1} :
            /\ ByOrigin(links_result') = ByOrigin(links_result) + d
            /\ ByPlacement(links_result') = ByPlacement(links_result) + d

\* C24: in the bundle of extract_all_links every retained anchor is in
\* exactly one of internal_links / external_links and in exactly one of
\* navigation_links / content_links, so that total_count is the size of
\* both partitions, and images_with_links holds retained anchors only.
C24_TwoPartitions == [](PartitionedBundle) /\ [][OneEntryPerAxis]_vars

\* a returned bundle with an entry in each of the five lists, one of them
\* an anchor whose landmark evaluation raised
C24_Witness ==
    /\ lpc = "done"
    /\ links_result.internal_links # <<>>
    /\ links_result.external_links # <<>>
    /\ links_result.navigation_links # <<>>
    /\ links_result.content_links # <<>>
    /\ links_result.images_with_links # <<>>
    /\ last # None /\ last[1].fail = "nav" /\ ~should_exclude(last[1].href)

\* an href that is a javascript:, mailto: or tel: target
ExcludedTarget(href) == href # <<>> /\ href[1] \in ExcludedPieces

\* an href that is only a fragment: "#", or "#" and a fragment name
FragmentOnly(href) == href # <<>> /\ href[1] = "#"

\* C25: an anchor (whose attributes are read without error) is in the link
\* bundle if and only if its href is not empty, is no javascript:, mailto:
\* or tel: target and is no fragment-only target; so every ordinary http(s)
\* or relative href is retained.
C25_RetainedIffNotExcluded ==
    last # None /\ lpc \in {"loop", "done"} /\ last[1].fail # "read" =>
        (LastData \in Retained(links_result)
           <=> /\ last[1].href # <<>>
               /\ ~ExcludedTarget(last[1].href)
               /\ ~FragmentOnly(last[1].href))

----------------------------------------------------------------------------
(* The order of run (SpecRun) *)

\* the identifiers of the detail loop bodies that produced a record
Succeeded ==
    LET good == SelectSeq(detail_log, LAMBDA e : e.ok)
    IN  [i \in DOMAIN good |-> good[i].id]

\* the detail phase has begun
InDetailPhase == rpc \in {"details", "done"} \/ (rpc = "raised" /\ item_i > 0)

\* C26: the pagination phase is over before the first detail fetch; the
\* details are fetched one at a time in the order of the identifier
\* sequence, cut to its first max_items identifiers when max_items is
\* given; the records emitted are in that order, the failed items left out.
C26_RunOrder ==
    /\ ~InDetailPhase => detail_log = <<>> /\ results = <<>>
    /\ InDetailPhase =>
         /\ rpc # "list"
         /\ max_items = None => run_ids = run_all_ids
         /\ max_items # None =>
              run_ids = SubSeq(run_all_ids, 1, Min(max_items[1], Len(run_all_ids)))
         /\ Len(detail_log) <= Len(run_ids)
         /\ \A i \in DOMAIN detail_log :
              i <= Len(run_ids) => detail_log[i].id = run_ids[i]
         /\ results = Succeeded
    /\ rpc = "done" => output = Some(results)

----------------------------------------------------------------------------
(* The identifier of crawl_detail (SpecDetail) *)

\* the record before the identifier is stored: the two passes merged
Merged == Merge(LabelPass, MetaPass)

\* C27: the record crawl_detail returns holds the item identifier passed in
\* under the configured identifier field, also when the label/value pass or
\* the meta pass produced a value under that key, and every other key of
\* the merged record is in it with its value unchanged.
C27_IdentifierInjected ==
    xpc = "done" =>
        /\ config.id_field \in DOMAIN detail
        /\ detail[config.id_field] = item_id
        /\ DOMAIN detail = DOMAIN Merged \cup {config.id_field}
        /\ \A k \in DOMAIN Merged \ {config.id_field} : detail[k] = Merged[k]

\* both passes produced a value under the identifier field, and the merged
\* record has another key
C27_Witness ==
    /\ xpc = "done"
    /\ config.id_field = "k"
    /\ "k" \in DOMAIN MetaPass \cap DOMAIN LabelPass
    /\ Merged["k"] # item_id
    /\ "title" \in DOMAIN Merged
    /\ detail["k"] = item_id

----------------------------------------------------------------------------
(* Claims about fetch_single_url and fetch_batch (SpecSession) *)

\* a step that runs fetch_single_url for the next job
FetchStep ==
    /\ bpc = "body" /\ job_i <= Len(jobs) /\ jobs[job_i].has_url
    /\ sessionVars' # sessionVars

\* the record fetch_single_url has just returned
NewResult == batch_results'[Len(batch_results')].result

\* the record of a failed fetch: an error message and no data
IsFailure(r) == ~r.success /\ r.error /\ r.data = None

\* C28, as stated: fetch_single_url never raises to its caller; whatever
\* step fails (page creation, navigation, scrolling, extraction,
\* screenshot), the record returned has success False, an error message
\* and no data; without a failure it has success True and a data entry
\* for exactly the kinds asked for
C28_AnyFailureFailsTheFetch ==
    [][FetchStep =>
         /\ ~raising'
         /\ Len(batch_results') = Len(batch_results) + 1
         /\ last_fail' # "none" => IsFailure(NewResult)
         /\ last_fail' = "none" =>
              /\ NewResult.success /\ ~NewResult.error
              /\ NewResult.data = Some(extract)]_vars

\* the failures that reach the except clause of fetch_single_url
Reaching == {"new_page", "goto", "screenshot", "save_screenshot", "close"}

\* C28, amended: fetch_single_url never raises to its caller; a failure of
\* page creation, navigation, the screenshot or the closing of the page
\* gives a record with success False, an error message and no data; a
\* failure of scrolling or inside an extractor is caught where it happens,
\* and the record then has, as without any failure, success True and a
\* data entry for exactly those of text, links and images asked for
C28_ReachingFailureFailsTheFetch ==
    [][FetchStep =>
         /\ ~raising'
         /\ Len(batch_results') = Len(batch_results) + 1
         /\ last_fail' \in Reaching => IsFailure(NewResult)
         /\ last_fail' \notin Reaching =>
              /\ NewResult.success /\ ~NewResult.error
              /\ NewResult.data = Some(extract \cap KnownKinds)]_vars

\* C28 witness: a fetch whose scrolling failed has returned a successful
\* record with the one known kind of the two asked for, and an earlier
\* fetch whose navigation failed a failure record
C28_Witness ==
    /\ last_fail = "scroll" /\ extract = {"links", "video"}
    /\ Len(batch_results) = 2
    /\ IsFailure(batch_results[1].result)
    /\ batch_results[2].result.success
    /\ batch_results[2].result.data = Some({"links"})
    /\ pages_open = 1 /\ ~raising

\* fetch_batch is over: it has returned, or an exception has left it
BatchOver == command = "batch" /\ bpc \in {"save", "summary", "exit"}

\* the name result i is to carry: the job's name, or job_<i> without one
NameOfJob(i) ==
    IF jobs[i].name # None THEN jobs[i].name ELSE <<"job_", IndexText(i)>>

\* C29: fetch_batch takes the jobs one at a time in list order and ends
\* with exactly one result per job, in job order, each stamped with its
\* job's name; a failed fetch gives a failure result and the jobs after it
\* still run; fetch_batch sleeps the delay after every job but the last
C29_OneResultPerJob ==
    command = "batch" =>
      /\ Len(batch_results) <= Len(jobs)
      /\ Len(sleeps) = Len(batch_results)
      /\ bpc = "body" => job_i = Len(batch_results) + 1
      /\ \A i \in DOMAIN batch_results :
           /\ i <= Len(jobs)
           /\ batch_results[i].job = i
           /\ i <= Len(jobs) => batch_results[i].job_name = NameOfJob(i)
           /\ i \in DOMAIN sleeps =>
                (sleeps[i] <=> delay > 0 /\ i < Len(jobs))
      /\ BatchOver => Len(batch_results) = Len(jobs)

====
